---------------------------- MODULE Spec2Model ----------------------------
(***************************************************************************)
(* homebridge-presence: three variants of a "Presence" accessory.          *)
(*   simple : src/src/accessory.ts   one trigger switch, motion+occupancy  *)
(*   dual   : src/unnamed/part_000   a motion switch and an occupancy      *)
(*                                   switch                                *)
(*   multi  : src/unnamed/part_001   one shared switch, N named triggers   *)
(* Time is in milliseconds, as in the setTimeout calls of the source.      *)
(* A timer is a record [id, cb, at]: a unique handle, the callback it runs *)
(* and its deadline.  Node runs a timer's callback once, not before its    *)
(* deadline; clearTimeout of a fired or cleared handle does nothing.       *)
(* HAP-NodeJS: Characteristic.setValue runs the characteristic's SET       *)
(* handler, Characteristic.updateValue does not.                           *)
(***************************************************************************)
EXTENDS Integers, Sequences, FiniteSets

VARIABLES
    variant,            \* which of the three accessories is running
    config,             \* config.motionDelay, config.occupancyDelay (0: falsy or absent)
    stateful,           \* this.stateful
    motionDelay,        \* this.motionDelay (seconds)
    occupancyDelay,     \* this.occupancyDelay (seconds)
    delay,              \* multi: trigger name -> Trigger.delay (seconds)
    now,                \* the clock, ms
    timers,             \* the scheduled timers that have neither fired nor been cleared
    nextId,             \* the next timer handle setTimeout returns
    motionTimer,        \* this.motionTimer   (Null or a handle)
    occupancyTimer,     \* this.occupancyTimer
    motion,             \* MotionDetected
    occupancy,          \* OccupancyDetected (this.presence in the simple variant)
    trigger,            \* simple: the trigger switch's On
    motionTrigger,      \* dual: the motion switch's On
    occupancyTrigger,   \* dual: the occupancy switch's On
    trigOccupancy,      \* multi: trigger name -> OccupancyDetected
    trigTimer,          \* multi: trigger name -> Trigger.timer
    switchOn,           \* multi: the shared switch's On
    events,             \* history: number of SET requests received from outside
    last,               \* history: the handler or callback that ran last
    onMark,             \* history: the value of nextId when the last ON was handled
    offSince,           \* history: time of the first OFF handled since the last ON
    lastOff,            \* history: time of the last OFF handled since the last ON
    pre,                \* history: the signals and pending decays when the last handler began
    motionOffAt,        \* history: dual: time of the last motion-OFF since the last motion-ON
    occupancyOffAt,     \* history: dual: time of the last occupancy-OFF since the last ON
    firings,            \* history: multi: the times at which the SET handler ran
    decayedAt           \* history: multi: trigger name -> time its decay last fired

cfgVars   == <<variant, config, stateful, motionDelay, occupancyDelay, delay>>
timerVars == <<timers, nextId>>
pairVars  == <<motionTimer, occupancyTimer, motion, occupancy>>
swVars    == <<trigger, motionTrigger, occupancyTrigger>>
multiVars == <<trigOccupancy, trigTimer, switchOn>>
histVars  == <<onMark, offSince, lastOff, pre, motionOffAt, occupancyOffAt, firings, decayedAt>>
vars == <<cfgVars, now, timerVars, pairVars, swVars, multiVars, events, last, histVars>>

-----------------------------------------------------------------------------
(* Bounds of the model *)
MaxEvents == 3          \* SET requests from outside
MaxTime   == 3000       \* the clock ticks in steps while now < MaxTime

(* Program constants *)
AutoResetMs         == 1000
DefaultMotionDelay    == 60 * 60
DefaultOccupancyDelay == 12 * 60 * 60

Null   == 0
NoTime == 0 - 1         \* history: "has not happened"
TickSteps == {500}      \* the clock's steps (a bound of the model)

(* The values config.motionDelay / config.occupancyDelay are drawn from;
   0 stands for every falsy value (0 or absent). *)
MotionDelayConfigs    == {0, 1, 2}
OccupancyDelayConfigs == {0, 2, 5}

(* config.triggers of the multi variant, in configuration order *)
Names == <<"A", "B">>
NameSet == {Names[i] : i \in 1..Len(Names)}
TriggerConfigs == {[A |-> 3, B |-> 10], [A |-> 1, B |-> 2], [A |-> 2, B |-> 1]}

-----------------------------------------------------------------------------
(* config.x || d *)
OrDefault(x, d) == IF x = 0 THEN d ELSE x

(* setTimeout(cb, ms) called at time now, returning handle id *)
setTimeout(id, cb, ms) == [id |-> id, cb |-> cb, at |-> now + ms, ms |-> ms]

(* clearTimeout(h) on the pending set pend *)
clearTimeout(pend, h) == {t \in pend : t.id # h}

(* if (h !== null) clearTimeout(h) *)
clearIfSet(pend, h) == IF h # Null THEN clearTimeout(pend, h) ELSE pend

Pending(cb) == {t \in timers : t.cb = cb}
(* A timer whose delay has elapsed runs; timers of equal delay run in the order
   they were scheduled. *)
Due(t) ==
    /\ t \in timers
    /\ t.at <= now
    /\ ~\E u \in timers : u.ms = t.ms /\ u.at <= t.at /\ u.id < t.id
(* Node's timers phase runs every expired timer before the loop polls for
   requests again: once a timer callback has run, no SET request is handled
   while another timer is due. *)
TimerCallbacks == {"motionDecay", "occupancyDecay", "autoReset", "triggerDecay"}
InTimersPhase == last \in TimerCallbacks /\ \E t \in timers : t.at <= now

(* what a handler finds when it begins *)
Snapshot == [motion |-> motion, occupancy |-> occupancy,
             mPend |-> Pending("motion") # {}, oPend |-> Pending("occupancy") # {}]

MinDeadline == IF timers = {} THEN NoTime
               ELSE CHOOSE d \in {t.at : t \in timers} : \A t \in timers : d <= t.at


-----------------------------------------------------------------------------
(* The state after construction *)
InitCommon ==
    /\ now = 0 /\ timers = {} /\ nextId = 1
    /\ motionTimer = Null /\ occupancyTimer = Null
    /\ motion = FALSE /\ occupancy = FALSE
    /\ trigger = FALSE /\ motionTrigger = FALSE /\ occupancyTrigger = FALSE
    /\ trigOccupancy = [n \in NameSet |-> FALSE]
    /\ trigTimer = [n \in NameSet |-> Null]
    /\ switchOn = FALSE
    /\ events = 0 /\ last = "init"
    /\ onMark = 1 /\ offSince = NoTime /\ lastOff = NoTime
    /\ pre = Snapshot
    /\ motionOffAt = NoTime /\ occupancyOffAt = NoTime
    /\ firings = <<>> /\ decayedAt = [n \in NameSet |-> NoTime]

PairConfig ==
    /\ stateful \in BOOLEAN
    /\ config \in [motionDelay : MotionDelayConfigs, occupancyDelay : OccupancyDelayConfigs]
    /\ motionDelay = OrDefault(config.motionDelay, DefaultMotionDelay)
    /\ occupancyDelay = OrDefault(config.occupancyDelay, DefaultOccupancyDelay)
    /\ delay = [n \in NameSet |-> 0]

InitSimple == variant = "simple" /\ PairConfig /\ InitCommon

InitDual == variant = "dual" /\ PairConfig /\ InitCommon

InitMulti ==
    /\ variant = "multi"
    /\ config = [motionDelay |-> 0, occupancyDelay |-> 0]
    /\ stateful = FALSE /\ motionDelay = 0 /\ occupancyDelay = 0
    /\ delay \in TriggerConfigs
    /\ InitCommon

Init == InitSimple \/ InitDual \/ InitMulti

-----------------------------------------------------------------------------
(* The clock.  A due timer runs before the clock moves past its deadline. *)
Tick ==
    /\ now < MaxTime
    /\ \E d \in TickSteps :
          /\ timers # {} => now + d <= MinDeadline
          /\ now' = now + d
    /\ last' = "tick"
    /\ UNCHANGED <<cfgVars, timerVars, pairVars, swVars, multiVars, events, histVars>>

(* Nothing happens until the next deadline. *)
Jump ==
    /\ timers # {}
    /\ now < MinDeadline
    /\ now' = MinDeadline
    /\ last' = "jump"
    /\ UNCHANGED <<cfgVars, timerVars, pairVars, swVars, multiVars, events, histVars>>

-----------------------------------------------------------------------------
(* Simple variant: src/src/accessory.ts *)

(* onTrigger whose OFF branch schedules the motion decay only *)
onTrigger_NoOccupancyDecay(value, pend) ==
    IF value
    THEN /\ motion' = TRUE
         /\ occupancy' = TRUE
         /\ timers' = clearIfSet(clearIfSet(pend, motionTimer), occupancyTimer)
                        \cup (IF ~stateful
                              THEN {setTimeout(nextId, "autoReset", AutoResetMs)}
                              ELSE {})
         /\ nextId' = IF ~stateful THEN nextId + 1 ELSE nextId
         /\ UNCHANGED <<motionTimer, occupancyTimer>>
    ELSE /\ motionTimer' = nextId
         /\ timers' = pend \cup {setTimeout(nextId, "motion", motionDelay * 1000)}
         /\ nextId' = nextId + 1
         /\ UNCHANGED <<occupancyTimer, motion, occupancy>>

(* onTrigger whose OFF branch passes the delays in seconds, not milliseconds *)
onTrigger_Seconds(value, pend) ==
    IF value
    THEN /\ motion' = TRUE
         /\ occupancy' = TRUE
         /\ timers' = clearIfSet(clearIfSet(pend, motionTimer), occupancyTimer)
                        \cup (IF ~stateful
                              THEN {setTimeout(nextId, "autoReset", AutoResetMs)}
                              ELSE {})
         /\ nextId' = IF ~stateful THEN nextId + 1 ELSE nextId
         /\ UNCHANGED <<motionTimer, occupancyTimer>>
    ELSE /\ motionTimer' = nextId
         /\ occupancyTimer' = nextId + 1
         /\ timers' = pend \cup {setTimeout(nextId, "motion", motionDelay),
                                 setTimeout(nextId + 1, "occupancy", occupancyDelay)}
         /\ nextId' = nextId + 2
         /\ UNCHANGED <<motion, occupancy>>

(* the auto-reset done with updateValue(false): onTrigger does not run *)
SimpleAutoReset_UpdateValue(t) ==
    /\ variant = "simple"
    /\ Due(t) /\ t.cb = "autoReset"
    /\ timers' = timers \ {t}
    /\ trigger' = FALSE
    /\ last' = "autoReset"
    /\ pre' = Snapshot
    /\ UNCHANGED <<cfgVars, now, nextId, pairVars, motionTrigger, occupancyTrigger,
                   multiVars, events, onMark, offSince, lastOff, motionOffAt, occupancyOffAt, firings, decayedAt>>

(* Presence.onTrigger(value), run on the pending set pend *)
onTrigger(value, pend) ==
    IF value
    THEN /\ motion' = TRUE
         /\ occupancy' = TRUE
         /\ timers' = clearIfSet(clearIfSet(pend, motionTimer), occupancyTimer)
                        \cup (IF ~stateful
                              THEN {setTimeout(nextId, "autoReset", AutoResetMs)}
                              ELSE {})
         /\ nextId' = IF ~stateful THEN nextId + 1 ELSE nextId
         /\ UNCHANGED <<motionTimer, occupancyTimer>>
    ELSE /\ motionTimer' = nextId
         /\ occupancyTimer' = nextId + 1
         /\ timers' = pend \cup {setTimeout(nextId, "motion", motionDelay * 1000),
                                 setTimeout(nextId + 1, "occupancy", occupancyDelay * 1000)}
         /\ nextId' = nextId + 2
         /\ UNCHANGED <<motion, occupancy>>

(* history of the ON and OFF events delivered to a handler *)
NoteOnOff(value) ==
    /\ pre' = Snapshot
    /\ IF value
       THEN onMark' = nextId /\ offSince' = NoTime /\ lastOff' = NoTime
       ELSE /\ onMark' = onMark
            /\ offSince' = (IF offSince = NoTime THEN now ELSE offSince)
            /\ lastOff' = now

(* A SET request on the trigger switch: the onSet handler runs, the value is stored *)
TriggerSet(value) ==
    /\ variant = "simple"
    /\ events < MaxEvents
    /\ ~InTimersPhase
    /\ onTrigger(value, timers)
    /\ trigger' = value
    /\ events' = events + 1
    /\ last' = (IF value THEN "triggerOn" ELSE "triggerOff")
    /\ NoteOnOff(value)
    /\ UNCHANGED <<cfgVars, now, motionTrigger, occupancyTrigger, multiVars,
                   motionOffAt, occupancyOffAt, firings, decayedAt>>

(* () => this.trigger.setValue(false): setValue runs onTrigger(false) *)
SimpleAutoReset(t) ==
    /\ variant = "simple"
    /\ Due(t) /\ t.cb = "autoReset"
    /\ onTrigger(FALSE, timers \ {t})
    /\ trigger' = FALSE
    /\ last' = "autoReset"
    /\ NoteOnOff(FALSE)
    /\ UNCHANGED <<cfgVars, now, motionTrigger, occupancyTrigger, multiVars, events,
                   motionOffAt, occupancyOffAt, firings, decayedAt>>

(* () => this.motion.updateValue(false) *)
SimpleMotionDecay(t) ==
    /\ variant = "simple"
    /\ Due(t) /\ t.cb = "motion"
    /\ motion' = FALSE
    /\ timers' = timers \ {t}
    /\ last' = "motionDecay"
    /\ UNCHANGED <<cfgVars, now, nextId, motionTimer, occupancyTimer, occupancy,
                   swVars, multiVars, events, histVars>>

(* () => this.presence.updateValue(false) *)
SimpleOccupancyDecay(t) ==
    /\ variant = "simple"
    /\ Due(t) /\ t.cb = "occupancy"
    /\ occupancy' = FALSE
    /\ timers' = timers \ {t}
    /\ last' = "occupancyDecay"
    /\ UNCHANGED <<cfgVars, now, nextId, motionTimer, occupancyTimer, motion,
                   swVars, multiVars, events, histVars>>

NextSimple ==
    \/ \E value \in BOOLEAN : TriggerSet(value)
    \/ \E t \in timers : SimpleAutoReset(t)
    \/ \E t \in timers : SimpleMotionDecay(t)
    \/ \E t \in timers : SimpleOccupancyDecay(t)

-----------------------------------------------------------------------------
(* Dual-switch variant: src/unnamed/part_000 *)

(* onMotion that clears only the motion timer: a pending occupancy decay
   survives a motion-ON *)
onMotion_KeepOccupancyTimer(value, pend) ==
    LET cleared == clearIfSet(pend, motionTimer)
    IN  IF value
        THEN /\ motion' = TRUE
             /\ occupancy' = TRUE
             /\ occupancyTrigger' = TRUE
             /\ timers' = cleared \cup (IF ~stateful
                                        THEN {setTimeout(nextId, "autoReset", AutoResetMs)}
                                        ELSE {})
             /\ nextId' = IF ~stateful THEN nextId + 1 ELSE nextId
             /\ UNCHANGED <<motionTimer, occupancyTimer>>
        ELSE /\ motionTimer' = nextId
             /\ timers' = cleared \cup {setTimeout(nextId, "motion", motionDelay * 1000)}
             /\ nextId' = nextId + 1
             /\ UNCHANGED <<occupancyTimer, motion, occupancy, occupancyTrigger>>

(* onMotion with the OFF branch of the simple variant: the old motion timer is
   not cleared before the new one is scheduled *)
onMotion_NoClear(value, pend) ==
    IF value
    THEN /\ motion' = TRUE
         /\ occupancy' = TRUE
         /\ occupancyTrigger' = TRUE
         /\ timers' = clearIfSet(clearIfSet(pend, motionTimer), occupancyTimer)
                        \cup (IF ~stateful
                              THEN {setTimeout(nextId, "autoReset", AutoResetMs)}
                              ELSE {})
         /\ nextId' = IF ~stateful THEN nextId + 1 ELSE nextId
         /\ UNCHANGED <<motionTimer, occupancyTimer>>
    ELSE /\ motionTimer' = nextId
         /\ timers' = clearIfSet(pend, occupancyTimer)
                        \cup {setTimeout(nextId, "motion", motionDelay * 1000)}
         /\ nextId' = nextId + 1
         /\ UNCHANGED <<occupancyTimer, motion, occupancy, occupancyTrigger>>

(* Presence.onMotion(value), run on the pending set pend *)
onMotion(value, pend) ==
    LET cleared == clearIfSet(clearIfSet(pend, motionTimer), occupancyTimer)
    IN  IF value
        THEN /\ motion' = TRUE
             /\ occupancy' = TRUE
             /\ occupancyTrigger' = TRUE
             /\ timers' = cleared \cup (IF ~stateful
                                        THEN {setTimeout(nextId, "autoReset", AutoResetMs)}
                                        ELSE {})
             /\ nextId' = IF ~stateful THEN nextId + 1 ELSE nextId
             /\ UNCHANGED <<motionTimer, occupancyTimer>>
        ELSE /\ motionTimer' = nextId
             /\ timers' = cleared \cup {setTimeout(nextId, "motion", motionDelay * 1000)}
             /\ nextId' = nextId + 1
             /\ UNCHANGED <<occupancyTimer, motion, occupancy, occupancyTrigger>>

(* onOccupancy whose OFF branch leaves the motion signal to its own decay *)
onOccupancy_KeepMotion(value, pend) ==
    LET cleared == clearIfSet(pend, occupancyTimer)
    IN  IF value
        THEN /\ occupancy' = TRUE
             /\ timers' = clearIfSet(cleared, motionTimer)
             /\ UNCHANGED <<nextId, motionTimer, occupancyTimer, motion, motionTrigger>>
        ELSE /\ motionTrigger' = FALSE
             /\ occupancyTimer' = nextId
             /\ timers' = cleared \cup {setTimeout(nextId, "occupancy", occupancyDelay * 1000)}
             /\ nextId' = nextId + 1
             /\ UNCHANGED <<motionTimer, motion, occupancy>>

(* Presence.onOccupancy(value), run on the pending set pend *)
onOccupancy(value, pend) ==
    LET cleared == clearIfSet(clearIfSet(pend, motionTimer), occupancyTimer)
    IN  IF value
        THEN /\ occupancy' = TRUE
             /\ timers' = cleared
             /\ UNCHANGED <<nextId, motionTimer, occupancyTimer, motion, motionTrigger>>
        ELSE /\ motion' = FALSE
             /\ motionTrigger' = FALSE
             /\ occupancyTimer' = nextId
             /\ timers' = cleared \cup {setTimeout(nextId, "occupancy", occupancyDelay * 1000)}
             /\ nextId' = nextId + 1
             /\ UNCHANGED <<motionTimer, occupancy>>

(* history of the events delivered to onMotion *)
NoteMotion(value) ==
    /\ pre' = Snapshot
    /\ motionOffAt' = (IF value THEN NoTime ELSE now)
    /\ occupancyOffAt' = (IF value THEN NoTime ELSE occupancyOffAt)

(* history of the events delivered to onOccupancy *)
NoteOccupancy(value) ==
    /\ pre' = Snapshot
    /\ occupancyOffAt' = (IF value THEN NoTime ELSE now)
    /\ UNCHANGED motionOffAt

(* A SET request on the motion switch *)
MotionSet(value) ==
    /\ variant = "dual"
    /\ events < MaxEvents
    /\ ~InTimersPhase
    /\ onMotion(value, timers)
    /\ motionTrigger' = value
    /\ events' = events + 1
    /\ last' = (IF value THEN "motionOn" ELSE "motionOff")
    /\ NoteMotion(value)
    /\ UNCHANGED <<cfgVars, now, trigger, multiVars, onMark, offSince, lastOff, firings, decayedAt>>

(* A SET request on the occupancy switch *)
OccupancySet(value) ==
    /\ variant = "dual"
    /\ events < MaxEvents
    /\ ~InTimersPhase
    /\ onOccupancy(value, timers)
    /\ occupancyTrigger' = value
    /\ events' = events + 1
    /\ last' = (IF value THEN "occupancyOn" ELSE "occupancyOff")
    /\ NoteOccupancy(value)
    /\ UNCHANGED <<cfgVars, now, trigger, multiVars, onMark, offSince, lastOff, firings, decayedAt>>

(* () => this.motionTrigger.setValue(false): setValue runs onMotion(false) *)
DualAutoReset(t) ==
    /\ variant = "dual"
    /\ Due(t) /\ t.cb = "autoReset"
    /\ onMotion(FALSE, timers \ {t})
    /\ motionTrigger' = FALSE
    /\ last' = "autoReset"
    /\ NoteMotion(FALSE)
    /\ UNCHANGED <<cfgVars, now, trigger, multiVars, events, onMark, offSince, lastOff, firings, decayedAt>>

(* () => this.motion.updateValue(false) *)
DualMotionDecay(t) ==
    /\ variant = "dual"
    /\ Due(t) /\ t.cb = "motion"
    /\ motion' = FALSE
    /\ timers' = timers \ {t}
    /\ last' = "motionDecay"
    /\ UNCHANGED <<cfgVars, now, nextId, motionTimer, occupancyTimer, occupancy,
                   swVars, multiVars, events, histVars>>

(* () => this.occupancy.updateValue(false) *)
DualOccupancyDecay(t) ==
    /\ variant = "dual"
    /\ Due(t) /\ t.cb = "occupancy"
    /\ occupancy' = FALSE
    /\ timers' = timers \ {t}
    /\ last' = "occupancyDecay"
    /\ UNCHANGED <<cfgVars, now, nextId, motionTimer, occupancyTimer, motion,
                   swVars, multiVars, events, histVars>>

NextDual ==
    \/ \E value \in BOOLEAN : MotionSet(value)
    \/ \E value \in BOOLEAN : OccupancySet(value)
    \/ \E t \in timers : DualAutoReset(t)
    \/ \E t \in timers : DualMotionDecay(t)
    \/ \E t \in timers : DualOccupancyDecay(t)

-----------------------------------------------------------------------------
(* Multi-trigger variant: src/unnamed/part_001 *)

(* fireTrigger scheduling every decay with the first trigger's delay *)
fireTrigger_FirstDelay(st, n) ==
    [occ  |-> [st.occ EXCEPT ![n] = TRUE],
     tmr  |-> [st.tmr EXCEPT ![n] = st.nid],
     pend |-> clearIfSet(st.pend, st.tmr[n])
                \cup {setTimeout(st.nid, n, delay[Names[1]] * 1000)},
     nid  |-> st.nid + 1]

(* fireTrigger without the clearTimeout of the trigger's old timer *)
fireTrigger_NoClear(st, n) ==
    [occ  |-> [st.occ EXCEPT ![n] = TRUE],
     tmr  |-> [st.tmr EXCEPT ![n] = st.nid],
     pend |-> st.pend \cup {setTimeout(st.nid, n, delay[n] * 1000)},
     nid  |-> st.nid + 1]

(* The body of this.triggers.forEach for trigger n, on the handler's running
   state st = [occ, tmr, pend, nid] *)
fireTrigger(st, n) ==
    [occ  |-> [st.occ EXCEPT ![n] = TRUE],
     tmr  |-> [st.tmr EXCEPT ![n] = st.nid],
     pend |-> clearIfSet(st.pend, st.tmr[n])
                \cup {setTimeout(st.nid, n, delay[n] * 1000)},
     nid  |-> st.nid + 1]

RECURSIVE forEach(_, _)
forEach(st, i) ==
    IF i > Len(Names) THEN st ELSE forEach(fireTrigger(st, Names[i]), i + 1)

(* The SET handler of the shared switch; it does not read value *)
onSet(value, pend) ==
    LET st == forEach([occ |-> trigOccupancy, tmr |-> trigTimer,
                       pend |-> pend, nid |-> nextId], 1)
    IN  /\ trigOccupancy' = st.occ
        /\ trigTimer' = st.tmr
        /\ timers' = st.pend \cup {setTimeout(st.nid, "autoReset", AutoResetMs)}
        /\ nextId' = st.nid + 1

(* A SET request on the shared switch: the handler runs, callback() stores the value *)
SwitchSet(value) ==
    /\ variant = "multi"
    /\ events < MaxEvents
    /\ ~InTimersPhase
    /\ onSet(value, timers)
    /\ switchOn' = value
    /\ events' = events + 1
    /\ last' = (IF value THEN "switchOn" ELSE "switchOff")
    /\ firings' = Append(firings, <<now, value>>)
    /\ UNCHANGED <<cfgVars, now, pairVars, swVars, onMark, offSince, lastOff, pre,
                   motionOffAt, occupancyOffAt, decayedAt>>

(* () => On.updateValue(false): no handler runs *)
MultiAutoReset(t) ==
    /\ variant = "multi"
    /\ Due(t) /\ t.cb = "autoReset"
    /\ switchOn' = FALSE
    /\ timers' = timers \ {t}
    /\ last' = "autoReset"
    /\ UNCHANGED <<cfgVars, now, nextId, pairVars, swVars, trigOccupancy, trigTimer,
                   events, histVars>>

(* () => trigger.setOccupancy(false) *)
TriggerDecay(t) ==
    /\ variant = "multi"
    /\ Due(t) /\ t.cb \in NameSet
    /\ trigOccupancy' = [trigOccupancy EXCEPT ![t.cb] = FALSE]
    /\ timers' = timers \ {t}
    /\ last' = "triggerDecay"
    /\ decayedAt' = [decayedAt EXCEPT ![t.cb] = now]
    /\ UNCHANGED <<cfgVars, now, nextId, pairVars, swVars, trigTimer, switchOn,
                   events, onMark, offSince, lastOff, pre,
                   motionOffAt, occupancyOffAt, firings>>

NextMulti ==
    \/ \E value \in BOOLEAN : SwitchSet(value)
    \/ \E t \in timers : MultiAutoReset(t)
    \/ \E t \in timers : TriggerDecay(t)

-----------------------------------------------------------------------------
Next == NextSimple \/ NextDual \/ NextMulti \/ Tick \/ Jump

Spec       == Init /\ [][Next]_vars
SpecSimple == InitSimple /\ [][NextSimple \/ Tick \/ Jump]_vars
SpecDual   == InitDual /\ [][NextDual \/ Tick \/ Jump]_vars
SpecMulti  == InitMulti /\ [][NextMulti \/ Tick \/ Jump]_vars

-----------------------------------------------------------------------------
(* Claims *)

DecaySignals == {"motion", "occupancy"} \cup NameSet
DecayTimers == {t \in timers : t.cb \in DecaySignals}

(* C1: simple variant: each of motion and occupancy has at most one scheduled
   and not yet fired decay timer.  The OFF branch of onTrigger overwrites the
   handles without clearing them, so two OFF events leave two timers each. *)
C1_OnePendingDecayPerSignal ==
    variant = "simple" =>
        /\ Cardinality(Pending("motion")) <= 1
        /\ Cardinality(Pending("occupancy")) <= 1

(* C2: dual-switch and multi-trigger variants: every signal (motion, occupancy,
   each named trigger's occupancy) has at most one pending decay timer. *)
C2_OnePendingDecayPerSignal ==
    variant \in {"dual", "multi"} =>
        \A cb \in DecaySignals : Cardinality(Pending(cb)) <= 1

(* C2's case: a motion-OFF handled while a decay timer was pending has
   replaced it by exactly one fresh motion timer. *)
C2_Witness ==
    /\ variant = "dual"
    /\ last = "motionOff"
    /\ pre.mPend
    /\ Cardinality(Pending("motion")) = 1
    /\ \A t \in Pending("motion") : t.id = motionTimer /\ t.id = nextId - 1

(* C3: simple variant: once a trigger-ON is handled, no decay timer scheduled
   before it is still pending, and while the last event delivered to onTrigger
   is that ON (trigger = TRUE) motion and occupancy stay true. *)
C3_OnCancelsEarlierDecays ==
    variant = "simple" =>
        /\ \A t \in DecayTimers : t.id >= onMark
        /\ trigger => (motion /\ occupancy)

(* Scenario C: triggers A (delay 3) and B (delay 10), the shared switch set ON
   at t=0 and again at t=1, and not since *)
ScenarioC ==
    /\ variant = "multi"
    /\ delay = [A |-> 3, B |-> 10]
    /\ firings = <<(<<0, TRUE>>), (<<1000, TRUE>>)>>

(* C4 as stated: in Scenario C, A reverts to false at t=4 and B at its
   originally scheduled t=10. *)
C4_SecondFiringLeavesB ==
    ScenarioC =>
        /\ decayedAt["A"] \in {NoTime, 4000}
        /\ decayedAt["B"] \in {NoTime, 10000}
        /\ now > 4000 => ~trigOccupancy["A"]
        /\ now > 10000 => ~trigOccupancy["B"]

(* C4 amended: in Scenario C the second firing resets both decays: A reverts to
   false at t=4 and B at t=11 (1 + 10), and each is true until then. *)
C4_SecondFiringResetsBoth ==
    ScenarioC =>
        /\ decayedAt["A"] \in {NoTime, 4000}
        /\ decayedAt["B"] \in {NoTime, 11000}
        /\ now > 4000 => ~trigOccupancy["A"]
        /\ now > 11000 => ~trigOccupancy["B"]
        /\ now < 4000 => trigOccupancy["A"]
        /\ now < 11000 => trigOccupancy["B"]

(* C4's case: Scenario C has run to the end: A reverted at 4, B at 11. *)
C4_Witness ==
    /\ ScenarioC
    /\ decayedAt["A"] = 4000 /\ decayedAt["B"] = 11000
    /\ ~trigOccupancy["A"] /\ ~trigOccupancy["B"]

(* C5: dual-switch variant: right after an occupancy-OFF handled while motion
   was true with a motion-decay timer pending, motion is false, the motion
   switch is OFF, no motion-decay timer is pending (handles are never reused,
   so the cancelled one cannot fire), and exactly one occupancy-decay timer is
   pending, due occupancyDelay seconds from now. *)
C5_OccupancyOffPreemptsMotion ==
    (variant = "dual" /\ last = "occupancyOff" /\ pre.motion /\ pre.mPend) =>
        /\ ~motion
        /\ ~motionTrigger
        /\ Pending("motion") = {}
        /\ Cardinality(Pending("occupancy")) = 1
        /\ \A t \in Pending("occupancy") :
              /\ t.at = now + occupancyDelay * 1000
              /\ t.id = occupancyTimer
        /\ \A t \in timers : t.id < nextId

(* C5's case: an occupancy-OFF has just pre-empted a pending motion decay
   while occupancy was still true. *)
C5_Witness ==
    /\ variant = "dual"
    /\ last = "occupancyOff"
    /\ pre.motion /\ pre.mPend
    /\ ~motion /\ occupancy
    /\ Pending("motion") = {}
    /\ Cardinality(Pending("occupancy")) = 1

(* C6: dual-switch variant, round trip: once every scheduled timer has fired
   (none is pending), motion and occupancy are false. *)
C6_RoundTripDual ==
    (variant = "dual" /\ timers = {}) => (~motion /\ ~occupancy)

(* C7: simple variant, round trip: when the last event delivered to
   onTrigger is an OFF (the trigger switch holds false), a signal that is
   still true has a decay timer pending; so once every scheduled timer has
   fired, motion and occupancy are false. *)
C7_RoundTripSimple ==
    (variant = "simple" /\ ~trigger) =>
        /\ motion => Pending("motion") # {}
        /\ occupancy => Pending("occupancy") # {}
        /\ timers = {} => (~motion /\ ~occupancy)

(* C7's case: both signals were true when the last OFF was handled, and all
   timers have fired since. *)
C7_Witness ==
    /\ variant = "simple"
    /\ ~trigger /\ timers = {}
    /\ pre.motion /\ pre.occupancy
    /\ last \in {"motionDecay", "occupancyDecay"}
    /\ ~motion /\ ~occupancy

(* C8: simple variant: after a trigger-OFF at time t with no ON since, the
   timers that OFF scheduled are due at t + motionDelay and t + occupancyDelay
   and pending until then; motion is false once the clock has passed
   t + motionDelay, occupancy once it has passed t + occupancyDelay; and the
   OFF handler leaves both values as it found them. *)
C8_OffDecaysAfterDelay ==
    variant = "simple" =>
        /\ (offSince # NoTime /\ now > offSince + motionDelay * 1000) => ~motion
        /\ (offSince # NoTime /\ now > offSince + occupancyDelay * 1000) => ~occupancy
        /\ (lastOff # NoTime /\ now < lastOff + motionDelay * 1000) =>
              \E t \in Pending("motion") :
                  t.id = motionTimer /\ t.at = lastOff + motionDelay * 1000
        /\ (lastOff # NoTime /\ now < lastOff + occupancyDelay * 1000) =>
              \E t \in Pending("occupancy") :
                  t.id = occupancyTimer /\ t.at = lastOff + occupancyDelay * 1000
        /\ last \in {"triggerOff", "autoReset"} =>
              (motion = pre.motion /\ occupancy = pre.occupancy)

(* C8's case, Scenario A: delays 2 and 5, ON then OFF at t=0; motion went
   false at 2 s and occupancy has just gone false at 5 s. *)
C8_Witness ==
    /\ variant = "simple" /\ ~stateful
    /\ motionDelay = 2 /\ occupancyDelay = 5
    /\ pre.motion /\ pre.occupancy
    /\ offSince = 0 /\ now = 5000
    /\ last = "occupancyDecay"
    /\ ~motion /\ ~occupancy

(* an ON handled with stateful=false has scheduled an auto-reset 1 s ahead *)
AutoResetScheduled ==
    (variant = "simple" /\ ~stateful /\ last = "triggerOn") =>
        \E t \in Pending("autoReset") : t.id = nextId - 1 /\ t.at = now + AutoResetMs

(* C9 as stated: simple variant, stateful=false: each ON schedules an
   auto-reset 1 s later, and when it fires the trigger switch goes OFF while
   motion, occupancy and the pending decay timers stay as they were. *)
C9_AutoResetTouchesSwitchOnly ==
    /\ []AutoResetScheduled
    /\ [][(variant = "simple" /\ last' = "autoReset") =>
              /\ trigger' = FALSE
              /\ motion' = motion /\ occupancy' = occupancy
              /\ DecayTimers' = DecayTimers]_vars

(* C9 amended: each ON schedules an auto-reset 1 s later; when it fires the
   trigger switch goes OFF and motion and occupancy keep their values, and,
   setValue(false) running onTrigger(false), one motion-decay timer due in
   motionDelay and one occupancy-decay timer due in occupancyDelay are added
   to the pending decay timers. *)
C9_AutoResetRunsOnTrigger ==
    /\ []AutoResetScheduled
    /\ [][(variant = "simple" /\ last' = "autoReset") =>
              /\ trigger' = FALSE
              /\ motion' = motion /\ occupancy' = occupancy
              /\ DecayTimers' = DecayTimers \cup
                    {[id |-> nextId, cb |-> "motion",
                      at |-> now + motionDelay * 1000, ms |-> motionDelay * 1000],
                     [id |-> nextId + 1, cb |-> "occupancy",
                      at |-> now + occupancyDelay * 1000, ms |-> occupancyDelay * 1000]}
              /\ Pending("autoReset")' \subseteq Pending("autoReset")]_vars

(* C9's case: the auto-reset of an ON has just fired, 1 s after it: the switch
   is OFF, the signals still true, their decays now pending. *)
C9_Witness ==
    /\ variant = "simple" /\ ~stateful
    /\ last = "autoReset"
    /\ now = AutoResetMs
    /\ ~trigger /\ motion /\ occupancy
    /\ pre.motion /\ ~pre.mPend
    /\ Pending("motion") # {} /\ Pending("occupancy") # {}

(* C10: multi variant: right after the switch is set ON every trigger's
   occupancy is true with exactly one pending timer, scheduled by this handler
   and due in that trigger's own delay; a trigger's occupancy is true exactly
   while its timer is pending; and a trigger's timer firing sets that trigger's
   occupancy to false and leaves every other trigger's value and pending timer
   as they were. *)
C10_FanOut ==
    /\ [](variant = "multi" =>
            /\ last = "switchOn" =>
                  \A n \in NameSet :
                      /\ trigOccupancy[n]
                      /\ Cardinality(Pending(n)) = 1
                      /\ \A t \in Pending(n) :
                            /\ t.id = trigTimer[n]
                            /\ t.id >= nextId - 1 - Len(Names)
                            /\ t.at = now + delay[n] * 1000
            /\ \A n \in NameSet : trigOccupancy[n] <=> Pending(n) # {})
    /\ [][(variant = "multi" /\ last' = "triggerDecay") =>
              \E n \in NameSet :
                  /\ trigOccupancy[n] /\ ~trigOccupancy'[n]
                  /\ Pending(n)' = {}
                  /\ \A m \in NameSet \ {n} :
                        /\ trigOccupancy'[m] = trigOccupancy[m]
                        /\ Pending(m)' = Pending(m)]_vars

(* C10's case: after one firing, A's timer has fired and B's is still pending. *)
C10_Witness ==
    /\ variant = "multi"
    /\ Len(firings) = 1 /\ firings[1][2]
    /\ last = "triggerDecay"
    /\ ~trigOccupancy["A"] /\ Pending("A") = {}
    /\ trigOccupancy["B"] /\ Cardinality(Pending("B")) = 1
    /\ now = firings[1][1] + delay["A"] * 1000

(* the handlers that schedule a motion decay, an occupancy decay *)
MotionOffRan ==
    \/ variant = "simple" /\ last \in {"triggerOff", "autoReset"}
    \/ variant = "dual" /\ last \in {"motionOff", "autoReset"}

OccupancyOffRan ==
    \/ variant = "simple" /\ last \in {"triggerOff", "autoReset"}
    \/ variant = "dual" /\ last = "occupancyOff"

(* C11: simple and dual variants, zero delay: with config.motionDelay = 0
   (resp. config.occupancyDelay = 0) the decay an OFF handler has just
   scheduled is due with a delay of 0, that is now, and the handler itself has
   not changed the signal (a simple-variant OFF changes neither signal, a dual
   motion-OFF leaves motion and an occupancy-OFF leaves occupancy). *)
C11_ZeroDelayDecaysNextTick ==
    /\ (MotionOffRan /\ config.motionDelay = 0) =>
          /\ \E t \in Pending("motion") : t.id = motionTimer /\ t.at = now
          /\ motion = pre.motion
    /\ (OccupancyOffRan /\ config.occupancyDelay = 0) =>
          /\ \E t \in Pending("occupancy") : t.id = occupancyTimer /\ t.at = now
          /\ occupancy = pre.occupancy

(* C12: dual variant: after an occupancy-OFF at time t with no motion-ON or
   occupancy-ON since, occupancy is false once the clock has passed
   t + occupancyDelay; after a motion-OFF at time t with no motion-ON since,
   motion is false once the clock has passed t + motionDelay; a motion-OFF
   (explicit or the auto-reset) leaves a pending occupancy decay pending, and
   an occupancy-ON leaves a pending motion decay pending. *)
C12_DecayOnlyPreemptedByRetrigger ==
    variant = "dual" =>
        /\ (occupancyOffAt # NoTime /\ now > occupancyOffAt + occupancyDelay * 1000)
              => ~occupancy
        /\ (motionOffAt # NoTime /\ now > motionOffAt + motionDelay * 1000)
              => ~motion
        /\ (last \in {"motionOff", "autoReset"} /\ pre.oPend)
              => Pending("occupancy") # {}
        /\ (last = "occupancyOn" /\ pre.mPend)
              => Pending("motion") # {}

(* C13: multi variant: a SET of the shared switch with value OFF changes no
   occupancy signal and no timer (it cancels none, schedules neither a decay
   nor an auto-reset); an occupancy goes from false to true only in a SET with
   value ON, and from true to false only when its own decay timer fires. *)
C13_OffSetDoesNothing ==
    [][variant = "multi" =>
          /\ last' = "switchOff" =>
                (trigOccupancy' = trigOccupancy /\ timers' = timers /\ trigTimer' = trigTimer)
          /\ \A n \in NameSet :
                /\ (~trigOccupancy[n] /\ trigOccupancy'[n]) => last' = "switchOn"
                /\ (trigOccupancy[n] /\ ~trigOccupancy'[n]) =>
                      (last' = "triggerDecay" /\ Pending(n)' # Pending(n))]_vars

(* C14: dual variant: in every reachable state motion = true implies
   occupancy = true. *)
C14_MotionImpliesOccupancyDual ==
    variant = "dual" => (motion => occupancy)

(* C14's case: a motion-ON handled while an occupancy decay was pending and
   motion was false has set both signals and cancelled that decay. *)
C14_Witness ==
    /\ variant = "dual"
    /\ last = "motionOn"
    /\ pre.oPend /\ ~pre.motion /\ pre.occupancy
    /\ motion /\ occupancy
    /\ Pending("occupancy") = {}

(* C15: simple variant with motionDelay <= occupancyDelay: in every reachable
   state motion = true implies occupancy = true. *)
C15_MotionImpliesOccupancySimple ==
    (variant = "simple" /\ motionDelay <= occupancyDelay) => (motion => occupancy)

(* the stored timer handles, each with the callback of the timers it is given *)
Handles ==
    IF variant = "multi"
    THEN {<<trigTimer[n], n>> : n \in NameSet}
    ELSE {<<motionTimer, "motion">>, <<occupancyTimer, "occupancy">>}

(* C16 as stated: in all three variants a stored timer handle is non-null only
   if it refers to a timer that is scheduled and has neither fired nor been
   cancelled (a firing decay timer clears its handle). *)
C16_HandleRefersToPendingTimer ==
    \A h \in Handles : h[1] # Null => \E t \in timers : t.id = h[1]

=============================================================================
